---- MODULE Spec2Model ----
(***************************************************************************)
(* newest-image-tag 0.15 (src/newest-image-tag.go, lines 437-867): the      *)
(* retrying HTTP fetcher (retryGetRequest / httpGet), the worker pool       *)
(* (getNewestTag / getTagDateUsingCache) and the tie-break selection        *)
(* (selectTagFromConflictingTags).                                          *)
(*                                                                         *)
(* Strings are sequences of one-character strings, so that Split, Join,     *)
(* concatenation and the byte order used by sort.Strings are computed.      *)
(***************************************************************************)
EXTENDS Integers, Sequences, FiniteSets, TLC

VARIABLES
    \* ---- configuration (kingpin flags)
    retries,        \* *retries
    threads,        \* *threads
    cache,          \* *cache
    \* ---- one call of retryGetRequest
    url,            \* its url argument
    gpc,            \* position of the caller: "loop", "select", "done"
    retry,          \* the loop variable
    responseError,  \* var responseError error
    body,           \* var body string
    response,       \* the unbuffered channel: its queue of blocked senders
    httpGets,       \* goroutine of attempt k: "none", "running", "blocked", "done"
    getLog,         \* history: what each iteration's select received
    getResult,      \* the (string, error) returned
    \* ---- getNewestTag
    pc,             \* "start", "spawn", "enqueue", "drain", "done", "panic"
    tagList,        \* tagList.Tags
    numJobs,        \* numJobs
    jobs,           \* the buffer of the jobs channel
    jobsClosed,     \* close(jobs) has run
    results,        \* the buffer of the results channel
    next,           \* index of the next tag to enqueue
    a,              \* the drain loop's counter
    tags,           \* var tags []ImageTag
    output,         \* the Output returned
    retErr,         \* the error returned
    \* ---- getTagDateUsingCache, one goroutine per w
    wpc,            \* "none", "range" (waiting for a job), "resolve"
    wtag,           \* tagName of the iteration
    \* ---- redis
    redisStore,     \* key -> value, NilValue when absent
    \* ---- history
    drained,        \* the results the orchestrator received, in order
    fetched,        \* tag -> number of registry fetches of its manifest
    cacheReads,     \* keys read from redis
    cacheWrites,    \* [key, value] written to redis
    resolved,       \* what each iteration of a worker did, in order
    lateTakes,      \* the tags received from jobs after getNewestTag returned
    \* ---- one call of a function of values only
    input,          \* its argument
    outcome,        \* what it returned
    before,         \* what it returned for the argument in its earlier order
    fpc             \* "idle", "call", "returned"

getVars == <<retries, url, gpc, retry, responseError, body, response, httpGets,
             getLog, getResult>>

poolVars == <<threads, cache, pc, tagList, numJobs, jobs, jobsClosed, results,
              next, a, tags, output, retErr, wpc, wtag, redisStore>>

histVars == <<drained, fetched, cacheReads, cacheWrites, resolved, lateTakes>>

fnVars == <<input, outcome, before, fpc>>

vars == <<getVars, poolVars, histVars, fnVars>>

----------------------------------------------------------------------------
(* Bounds of the model *)

MaxRetries == 2
MaxTags == 2
MaxThreads == 2
MaxDate == 1
MaxHistory == 3
MaxLen == 4

----------------------------------------------------------------------------
(* Strings *)

dockerRegistryDomain ==
    <<"r","e","g","i","s","t","r","y",".","h","u","b",".","d","o","c","k","e","r",".","c","o","m">>

\* byte values of the characters the model uses
Ord(c) ==
    CASE c = "." -> 46 [] c = "/" -> 47 [] c = "0" -> 48 [] c = "1" -> 49
      [] c = "2" -> 50 [] c = ":" -> 58 [] c = "a" -> 97 [] c = "b" -> 98
      [] c = "i" -> 105 [] c = "o" -> 111 [] c = "r" -> 114 [] c = "v" -> 118
      [] OTHER -> 255

\* Go's string < : bytewise lexicographic, a proper prefix is smaller
RECURSIVE StrLess(_, _)
StrLess(s, t) ==
    IF t = <<>> THEN FALSE
    ELSE IF s = <<>> THEN TRUE
    ELSE IF Head(s) = Head(t) THEN StrLess(Tail(s), Tail(t))
    ELSE Ord(Head(s)) < Ord(Head(t))

\* strings.Split(s, sep) for a one-character sep: always at least one part
RECURSIVE SplitFrom(_, _, _)
SplitFrom(s, sep, cur) ==
    IF s = <<>> THEN <<cur>>
    ELSE IF Head(s) = sep THEN <<cur>> \o SplitFrom(Tail(s), sep, <<>>)
    ELSE SplitFrom(Tail(s), sep, Append(cur, Head(s)))

Split(s, sep) == SplitFrom(s, sep, <<>>)

\* strings.Join(parts, sep)
RECURSIVE Join(_, _)
Join(parts, sep) ==
    IF parts = <<>> THEN <<>>
    ELSE IF Len(parts) = 1 THEN parts[1]
    ELSE parts[1] \o <<sep>> \o Join(Tail(parts), sep)

\* strings.Contains(s, c) for a one-character c
Contains(s, c) == \E i \in 1..Len(s) : s[i] = c

----------------------------------------------------------------------------
(* Errors.  An error value is a record; NoErr is Go's nil error. *)

NoErr == [kind |-> "nil", url |-> <<>>, code |-> 0, retry |-> 0]

\* fmt.Errorf("%s: HTTP response code (%d retries): %d", url, retry, statusCode)
HTTPStatusRetryError(u, r, code) ==
    [kind |-> "HTTPStatusRetry", url |-> u, code |-> code, retry |-> r]

\* fmt.Errorf("%s: HTTP response code: %d", url, statusCode)
HTTPStatusError(u, code) ==
    [kind |-> "HTTPStatus", url |-> u, code |-> code, retry |-> 0]

\* fmt.Errorf("%s: HTTP response timeout (%d retries)", url, retry)
TimeoutError(u, r) ==
    [kind |-> "Timeout", url |-> u, code |-> 0, retry |-> r]

\* the error of http.NewRequest / client.Do / ioutil.ReadAll
TransportError(what) ==
    [kind |-> what, url |-> <<>>, code |-> 0, retry |-> 0]

----------------------------------------------------------------------------
(* parseImageName *)

\* a dot anywhere in the name taken for a dot in the first part
parseImageNameDotAnywhere(imageName) ==
    LET parts == Split(imageName, "/") IN
    IF Len(parts) < 2
    THEN [host |-> dockerRegistryDomain,
          path |-> <<"l","i","b","r","a","r","y","/">> \o parts[1],
          err |-> NoErr]
    ELSE IF Contains(imageName, ".")
    THEN [host |-> parts[1], path |-> Join(Tail(parts), "/"), err |-> NoErr]
    ELSE [host |-> dockerRegistryDomain, path |-> Join(parts, "/"), err |-> NoErr]

\* a first part with a dot taken as the host even when there is no slash
parseImageNameDotIsHost(imageName) ==
    LET parts == Split(imageName, "/") IN
    IF Contains(parts[1], ".")
    THEN [host |-> parts[1], path |-> Join(Tail(parts), "/"), err |-> NoErr]
    ELSE IF Len(parts) < 2
    THEN [host |-> dockerRegistryDomain,
          path |-> <<"l","i","b","r","a","r","y","/">> \o parts[1],
          err |-> NoErr]
    ELSE [host |-> dockerRegistryDomain, path |-> Join(parts, "/"), err |-> NoErr]

parseImageName(imageName) ==
    LET parts == Split(imageName, "/") IN
    IF Len(parts) < 2
    THEN [host |-> dockerRegistryDomain,
          path |-> <<"l","i","b","r","a","r","y","/">> \o parts[1],
          err |-> NoErr]
    ELSE IF Contains(parts[1], ".")
    THEN [host |-> parts[1], path |-> Join(Tail(parts), "/"), err |-> NoErr]
    ELSE [host |-> dockerRegistryDomain, path |-> Join(parts, "/"), err |-> NoErr]

\* "https://" + imageParts.host + "/v2/" + imageParts.path + "/tags/list"
TagsListURL(image) ==
    LET p == parseImageName(image) IN
    <<"h","t","t","p","s",":","/","/">> \o p.host \o <<"/","v","2","/">>
        \o p.path \o <<"/","t","a","g","s","/","l","i","s","t">>

\* "https://" + imageParts.host + "/v2/" + imageParts.path + "/manifests/" + tag
ManifestURL(image, tag) ==
    LET p == parseImageName(image) IN
    <<"h","t","t","p","s",":","/","/">> \o p.host \o <<"/","v","2","/">>
        \o p.path \o <<"/","m","a","n","i","f","e","s","t","s","/">> \o tag

----------------------------------------------------------------------------
(* Response bodies.  A body is a record: the empty string, a text that is   *)
(* not JSON, or the JSON text of a tag list.                                *)

EmptyBody == [kind |-> "empty"]
GarbageBody == [kind |-> "garbage"]
TagListBody(ts) == [kind |-> "taglist", tags |-> ts]

\* the image of the run, and the bodies and statuses the registry answers with
Image == <<"r",".","i","o","/","a">>
Statuses == {200, 404, 500, 503}
GetUrls == {TagsListURL(Image)}
GetBodies == {TagListBody(<<>>), TagListBody(<< <<"a">> >>)}

\* HTTPResponse values httpGet can send
Messages ==
    {[body |-> EmptyBody, err |-> TransportError("transport"), statusCode |-> 0],
     [body |-> EmptyBody, err |-> TransportError("read"), statusCode |-> 200]}
    \cup {[body |-> b, err |-> NoErr, statusCode |-> 200] : b \in GetBodies}
    \cup {[body |-> GarbageBody, err |-> NoErr, statusCode |-> s] : s \in Statuses \ {200}}

NoMsg == [body |-> EmptyBody, err |-> NoErr, statusCode |-> 0]

----------------------------------------------------------------------------
(* retryGetRequest *)

\* the loop condition: retry <= *retries
LoopCondOffByOne(r) == r <= retries + 1
LoopCond(r) == r <= retries

\* case msg := <-response: the new responseError and body, and whether the
\* loop breaks or continues
HandleResponseKeepsError(u, r, msg, curErr, curBody) ==
    IF msg.err = NoErr
    THEN IF msg.statusCode = 200
         THEN [responseError |-> curErr, body |-> msg.body, next |-> "break"]
         ELSE IF msg.statusCode >= 500
         THEN [responseError |-> HTTPStatusRetryError(u, r, msg.statusCode),
               body |-> curBody, next |-> "continue"]
         ELSE [responseError |-> HTTPStatusError(u, msg.statusCode),
               body |-> curBody, next |-> "break"]
    ELSE [responseError |-> msg.err, body |-> curBody, next |-> "break"]
HandleResponseRetriesAll(u, r, msg, curErr, curBody) ==
    IF msg.err = NoErr
    THEN IF msg.statusCode = 200
         THEN [responseError |-> NoErr, body |-> msg.body, next |-> "break"]
         ELSE [responseError |-> HTTPStatusRetryError(u, r, msg.statusCode),
               body |-> curBody, next |-> "continue"]
    ELSE [responseError |-> msg.err, body |-> curBody, next |-> "break"]
HandleResponseRetriesTransport(u, r, msg, curErr, curBody) ==
    IF msg.err = NoErr
    THEN IF msg.statusCode = 200
         THEN [responseError |-> NoErr, body |-> msg.body, next |-> "break"]
         ELSE IF msg.statusCode >= 500
         THEN [responseError |-> HTTPStatusRetryError(u, r, msg.statusCode),
               body |-> curBody, next |-> "continue"]
         ELSE [responseError |-> HTTPStatusError(u, msg.statusCode),
               body |-> curBody, next |-> "break"]
    ELSE [responseError |-> msg.err, body |-> curBody, next |-> "continue"]
HandleResponse(u, r, msg, curErr, curBody) ==
    IF msg.err = NoErr
    THEN IF msg.statusCode = 200
         THEN [responseError |-> NoErr, body |-> msg.body, next |-> "break"]
         ELSE IF msg.statusCode >= 500
         THEN [responseError |-> HTTPStatusRetryError(u, r, msg.statusCode),
               body |-> curBody, next |-> "continue"]
         ELSE [responseError |-> HTTPStatusError(u, msg.statusCode),
               body |-> curBody, next |-> "break"]
    ELSE [responseError |-> msg.err, body |-> curBody, next |-> "break"]

\* case <-time.After(...)
HandleTimeoutBreaks(u, r, curErr, curBody) ==
    [responseError |-> TimeoutError(u, r), body |-> curBody, next |-> "break"]
HandleTimeout(u, r, curErr, curBody) ==
    [responseError |-> TimeoutError(u, r), body |-> curBody, next |-> "continue"]

\* the statements after the loop
ReturnValue(err, b) ==
    IF err # NoErr THEN [body |-> EmptyBody, err |-> err]
    ELSE [body |-> b, err |-> NoErr]

NoResult == [body |-> EmptyBody, err |-> NoErr]

\* the goroutines started so far: one per `go httpGet`
Attempts == Cardinality({g \in DOMAIN httpGets : httpGets[g] # "none"})

\* what follows a select case: break leaves the loop and returns, continue
\* runs the post statement retry++
AfterSelect(h) ==
    /\ responseError' = h.responseError
    /\ body' = h.body
    /\ IF h.next = "break"
       THEN /\ gpc' = "done"
            /\ retry' = retry
            /\ getResult' = ReturnValue(h.responseError, h.body)
       ELSE /\ gpc' = "loop"
            /\ retry' = retry + 1
            /\ getResult' = getResult

\* for retry := 0; retry <= *retries; ... { sleep; go httpGet(...) }
StartAttempt ==
    /\ gpc = "loop"
    /\ LoopCond(retry)
    /\ httpGets' = [httpGets EXCEPT ![retry] = "running"]
    /\ gpc' = "select"
    /\ UNCHANGED <<retries, url, retry, responseError, body, response, getLog, getResult>>
    /\ UNCHANGED <<poolVars, histVars, fnVars>>

\* the loop condition fails: the statements after the loop
ExitLoop ==
    /\ gpc = "loop"
    /\ ~LoopCond(retry)
    /\ gpc' = "done"
    /\ getResult' = ReturnValue(responseError, body)
    /\ UNCHANGED <<retries, url, retry, responseError, body, response, httpGets, getLog>>
    /\ UNCHANGED <<poolVars, histVars, fnVars>>

\* httpGet: the request ends one way or another and the goroutine blocks in
\* response <- msg until the channel is received from
HttpGetSend(g) ==
    /\ httpGets[g] = "running"
    /\ \E msg \in Messages :
          response' = Append(response, [from |-> g, msg |-> msg])
    /\ httpGets' = [httpGets EXCEPT ![g] = "blocked"]
    /\ UNCHANGED <<retries, url, gpc, retry, responseError, body, getLog, getResult>>
    /\ UNCHANGED <<poolVars, histVars, fnVars>>

\* case msg := <-response: the sender that has waited longest is received
Receive ==
    /\ gpc = "select"
    /\ response # <<>>
    /\ LET m == Head(response) IN
         /\ response' = Tail(response)
         /\ httpGets' = [httpGets EXCEPT ![m.from] = "done"]
         /\ getLog' = Append(getLog, [retry |-> retry, kind |-> "response",
                                      from |-> m.from, msg |-> m.msg])
         /\ AfterSelect(HandleResponse(url, retry, m.msg, responseError, body))
    /\ UNCHANGED <<retries, url>>
    /\ UNCHANGED <<poolVars, histVars, fnVars>>

\* case <-time.After(httpTimeout): no sender showed up in time
Timeout ==
    /\ gpc = "select"
    /\ response = <<>>
    /\ getLog' = Append(getLog, [retry |-> retry, kind |-> "timeout",
                                 from |-> -1, msg |-> NoMsg])
    /\ AfterSelect(HandleTimeout(url, retry, responseError, body))
    /\ UNCHANGED <<retries, url, response, httpGets>>
    /\ UNCHANGED <<poolVars, histVars, fnVars>>

----------------------------------------------------------------------------
(* time.Time and RFC3339Nano texts.                                         *)
(* A timestamp text is a record: an instant and the UTC offset it is        *)
(* written with, or a text that is no timestamp.  A time.Time is an         *)
(* instant and a *Location; Go's == on time.Time compares both.             *)

Offsets == {"Z", "+01:00"}
Stamp(i, off) == [kind |-> "rfc3339", inst |-> i, off |-> off]
BadStamp == [kind |-> "text", inst |-> 0, off |-> "Z"]
Stamps == {Stamp(i, off) : i \in 0..MaxDate, off \in Offsets}

\* the zone of the process (TZ unset: Local is UTC, written "+00:00")
LocalOffset == "+00:00"

UTCLoc == [zone |-> "Z", tag |-> <<>>, item |-> 0]
LocalLoc == [zone |-> LocalOffset, tag |-> <<>>, item |-> -1]
\* time.FixedZone allocates a Location: each call of time.Parse has its own
FixedZone(off, tagName, item) == [zone |-> off, tag |-> tagName, item |-> item]

\* time.Time{}
ZeroTime == [inst |-> -1, loc |-> UTCLoc]

TimeParseError == [kind |-> "TimeParse", url |-> <<>>, code |-> 0, retry |-> 0]

\* time.Parse(time.RFC3339Nano, text), called for item `item` of tag `tagName`
ParseTime(text, tagName, item) ==
    IF text.kind # "rfc3339" THEN [date |-> ZeroTime, err |-> TimeParseError]
    ELSE IF text.off = "Z"
    THEN [date |-> [inst |-> text.inst, loc |-> UTCLoc], err |-> NoErr]
    ELSE IF text.off = LocalOffset
    THEN [date |-> [inst |-> text.inst, loc |-> LocalLoc], err |-> NoErr]
    ELSE [date |-> [inst |-> text.inst, loc |-> FixedZone(text.off, tagName, item)],
          err |-> NoErr]

\* a layout that loses the time of day
FormatTimeDateOnly(t) ==
    Stamp(0, IF t.loc.zone = "+00:00" THEN "Z" ELSE t.loc.zone)

\* t.Format(time.RFC3339Nano): an offset of zero is written "Z"
FormatTime(t) ==
    Stamp(t.inst, IF t.loc.zone = "+00:00" THEN "Z" ELSE t.loc.zone)

\* t.After(u)
After(t, u) == t.inst > u.inst

\* t == u on time.Time values
TimeEq(t, u) == t = u

----------------------------------------------------------------------------
(* The registry's answers *)

\* tag names: as many as a list can hold, one a proper prefix of another
NamePool == << <<"a">>, <<"b">>, <<"a","b">>, <<"b","a">>, <<"a","a">> >>
TagNames == {NamePool[i] : i \in 1..MaxTags}

\* the sequences of at most n distinct elements of S
RECURSIVE DistinctSeqs(_, _)
DistinctSeqs(S, n) ==
    IF n = 0 THEN {<<>>}
    ELSE LET shorter == DistinctSeqs(S, n - 1)
             longest == {q \in shorter : Len(q) = n - 1}
         IN  shorter \cup
             {Append(p[1], p[2]) :
                 p \in {pp \in longest \X S :
                           \A i \in 1..Len(pp[1]) : pp[1][i] # pp[2]}}

TagLists == DistinctSeqs(TagNames, MaxTags)

\* a manifest's body: schemaVersion and the v1Compatibility texts of history
ManifestBody(sv, history) ==
    [kind |-> "manifest", schemaVersion |-> sv, history |-> history]
\* a v1Compatibility text: JSON with a "created" text, or no JSON at all
V1Compat(created) == [kind |-> "json", created |-> created]
GarbageItem == [kind |-> "garbage", created |-> BadStamp]

UnmarshalError == [kind |-> "Unmarshal", url |-> <<>>, code |-> 0, retry |-> 0]
ItemUnmarshalError == [kind |-> "ItemUnmarshal", url |-> <<>>, code |-> 0, retry |-> 0]
SchemaVersionError == [kind |-> "WrongManifestVersion", url |-> <<>>, code |-> 0, retry |-> 0]

\* what retryGetRequest can return for the tag list
TagsListAnswers ==
    {[body |-> EmptyBody, err |-> HTTPStatusError(TagsListURL(Image), 404)],
     [body |-> GarbageBody, err |-> NoErr]}
    \cup {[body |-> TagListBody(l), err |-> NoErr] : l \in TagLists}

\* the created texts of the manifests the registry serves: every instant
\* written in UTC, the latest one with each offset
ManifestStamps ==
    {Stamp(i, "Z") : i \in 0..MaxDate} \cup {Stamp(MaxDate, off) : off \in Offsets}

\* what retryGetRequest can return for the manifest of a tag
ManifestAnswers(tagName) ==
    {[body |-> EmptyBody, err |-> HTTPStatusError(ManifestURL(Image, tagName), 404)],
     [body |-> ManifestBody(2, <<V1Compat(Stamp(MaxDate, "Z"))>>), err |-> NoErr],
     [body |-> ManifestBody(1, <<>>), err |-> NoErr],
     [body |-> ManifestBody(1, <<GarbageItem>>), err |-> NoErr]}
    \cup {[body |-> ManifestBody(1, <<V1Compat(st)>>), err |-> NoErr] :
             st \in ManifestStamps}

----------------------------------------------------------------------------
(* getTagsList, getTagManifest, getNewestManifestHistoryItem, getTagDate *)

\* json.Unmarshal into TagList: fields the text does not have stay zero
getTagsList(answer) ==
    IF answer.err # NoErr THEN [tags |-> <<>>, err |-> answer.err]
    ELSE IF answer.body.kind = "taglist" THEN [tags |-> answer.body.tags, err |-> NoErr]
    ELSE IF answer.body.kind = "manifest" THEN [tags |-> <<>>, err |-> NoErr]
    ELSE [tags |-> <<>>, err |-> UnmarshalError]

\* json.Unmarshal into TagManifest
getTagManifest(answer) ==
    IF answer.err # NoErr
    THEN [schemaVersion |-> 0, history |-> <<>>, err |-> answer.err]
    ELSE IF answer.body.kind = "manifest"
    THEN [schemaVersion |-> answer.body.schemaVersion,
          history |-> answer.body.history, err |-> NoErr]
    ELSE IF answer.body.kind = "taglist"
    THEN [schemaVersion |-> 0, history |-> <<>>, err |-> NoErr]
    ELSE [schemaVersion |-> 0, history |-> <<>>, err |-> UnmarshalError]

\* sort.Slice on a slice of at most 6 elements is an insertion sort: element
\* x moves left while less(x, the element before it)
RECURSIVE InsertByDate(_, _)
InsertByDate(sorted, x) ==
    IF sorted = <<>> THEN <<x>>
    ELSE LET last == sorted[Len(sorted)] IN
         IF After(x.date, last.date)
         THEN Append(InsertByDate(SubSeq(sorted, 1, Len(sorted) - 1), x), last)
         ELSE Append(sorted, x)

RECURSIVE SortByDateFrom(_, _)
SortByDateFrom(sorted, rest) ==
    IF rest = <<>> THEN sorted
    ELSE SortByDateFrom(InsertByDate(sorted, Head(rest)), Tail(rest))

\* the slice left as it is
SortByDateUnsorted(x) == x

\* sort.Slice(x, func(i, j) { return x[i].date.After(x[j].date) })
SortByDateDesc(x) == SortByDateFrom(<<>>, x)

\* the loop over tagManifest.History: the dates, or the first error
RECURSIVE HistoryDates(_, _, _, _)
HistoryDates(history, tagName, k, acc) ==
    IF k > Len(history) THEN [dates |-> acc, err |-> NoErr]
    ELSE IF history[k].kind # "json" THEN [dates |-> acc, err |-> ItemUnmarshalError]
    ELSE LET p == ParseTime(history[k].created, tagName, k) IN
         IF p.err # NoErr THEN [dates |-> acc, err |-> p.err]
         ELSE HistoryDates(history, tagName, k + 1, Append(acc, [date |-> p.date]))

\* createDates[0] of an empty slice panics
getNewestManifestHistoryItem(history, tagName) ==
    LET h == HistoryDates(history, tagName, 1, <<>>) IN
    IF h.err # NoErr THEN [date |-> ZeroTime, err |-> h.err, panic |-> FALSE]
    ELSE IF h.dates = <<>> THEN [date |-> ZeroTime, err |-> NoErr, panic |-> TRUE]
    ELSE [date |-> SortByDateDesc(h.dates)[1].date, err |-> NoErr, panic |-> FALSE]

\* the schema version not looked at
getTagDateAnyVersion(tagName, answer) ==
    LET manifest == getTagManifest(answer) IN
    IF manifest.err # NoErr
    THEN [date |-> ZeroTime, err |-> manifest.err, panic |-> FALSE]
    ELSE getNewestManifestHistoryItem(manifest.history, tagName)

getTagDate(tagName, answer) ==
    LET manifest == getTagManifest(answer) IN
    IF manifest.err # NoErr
    THEN [date |-> ZeroTime, err |-> manifest.err, panic |-> FALSE]
    ELSE IF manifest.schemaVersion # 1
    THEN [date |-> ZeroTime, err |-> SchemaVersionError, panic |-> FALSE]
    ELSE getNewestManifestHistoryItem(manifest.history, tagName)

----------------------------------------------------------------------------
(* selectTagFromConflictingTags *)

RECURSIVE InsertString(_, _)
InsertString(sorted, x) ==
    IF sorted = <<>> THEN <<x>>
    ELSE LET last == sorted[Len(sorted)] IN
         IF StrLess(x, last)
         THEN Append(InsertString(SubSeq(sorted, 1, Len(sorted) - 1), x), last)
         ELSE Append(sorted, x)

RECURSIVE SortStringsFrom(_, _)
SortStringsFrom(sorted, rest) ==
    IF rest = <<>> THEN sorted
    ELSE SortStringsFrom(InsertString(sorted, Head(rest)), Tail(rest))

\* sort.Strings(x)
SortStrings(x) == SortStringsFrom(<<>>, x)

\* the loop: every tag other than tags[0] whose date == tags[0].date
RECURSIVE ConflictingFrom(_, _, _)
ConflictingFrom(ts, k, acc) ==
    IF k > Len(ts) THEN acc
    ELSE IF ts[1].tag # ts[k].tag /\ TimeEq(ts[1].date, ts[k].date)
    THEN ConflictingFrom(ts, k + 1, Append(acc, ts[k].tag))
    ELSE ConflictingFrom(ts, k + 1, acc)

\* called with a non-empty slice; tags[0] of an empty one panics
selectTagFromConflictingTags(ts) ==
    SortStrings(ConflictingFrom(ts, 1, <<ts[1].tag>>))[1]

----------------------------------------------------------------------------
(* redis *)

\* imageWithTag := image + ":" + tagName
ImageWithTag(image, tagName) == image \o <<":">> \o tagName

Keys == {ImageWithTag(Image, t) : t \in TagNames}
\* redis.Nil: the key is absent
NilValue == [kind |-> "nil", inst |-> 0, off |-> "Z"]

\* the stores a run can start with: empty, or every key of the image cached
\* (by an earlier run) with a timestamp or with a text that is none
InitialStores ==
    {[k \in Keys |-> v] : v \in {NilValue, Stamp(MaxDate, "Z"), Stamp(0, "+01:00"), BadStamp}}

----------------------------------------------------------------------------
(* getTagDateUsingCache: the body of one iteration of `for tagName := range tags` *)

\* a failed redisClient.Set reported as the tag's error
FetchAndStoreSetFatal(tagName, store, answer, setFails, write) ==
    LET d == getTagDate(tagName, answer)
        failed == write /\ setFails /\ ~d.panic /\ d.err = NoErr
    IN  [imageTag |-> [tag |-> tagName, date |-> d.date,
                       err |-> IF failed THEN TransportError("redis") ELSE d.err],
         panic |-> d.panic, store |-> store, writes |-> {}]

\* redisClient.Set called whether or not getTagDate failed
FetchAndStoreAlwaysSet(tagName, store, answer, setFails, write) ==
    LET d == getTagDate(tagName, answer)
        key == ImageWithTag(Image, tagName)
    IN  [imageTag |-> [tag |-> tagName, date |-> d.date, err |-> d.err],
         panic |-> d.panic,
         store |-> IF write /\ ~setFails
                   THEN [store EXCEPT ![key] = FormatTime(d.date)]
                   ELSE store,
         writes |-> IF write
                    THEN {[key |-> key, value |-> FormatTime(d.date), ok |-> ~setFails]}
                    ELSE {}]

\* the registry branch (the same statements follow err == redis.Nil and
\* err != nil): getTagDate, then redisClient.Set unless getTagDate failed
FetchAndStore(tagName, store, answer, setFails, write) ==
    LET d == getTagDate(tagName, answer)
        key == ImageWithTag(Image, tagName)
    IN  IF d.panic
        THEN [imageTag |-> [tag |-> tagName, date |-> ZeroTime, err |-> NoErr],
              panic |-> TRUE, store |-> store, writes |-> {}]
        ELSE IF d.err # NoErr
        THEN [imageTag |-> [tag |-> tagName, date |-> d.date, err |-> d.err],
              panic |-> FALSE, store |-> store, writes |-> {}]
        ELSE [imageTag |-> [tag |-> tagName, date |-> d.date, err |-> NoErr],
              panic |-> FALSE,
              store |-> IF write /\ ~setFails
                        THEN [store EXCEPT ![key] = FormatTime(d.date)]
                        ELSE store,
              writes |-> IF write
                         THEN {[key |-> key, value |-> FormatTime(d.date), ok |-> ~setFails]}
                         ELSE {}]

\* the error of time.Parse dropped
FromCacheIgnoresError(tagName, store) ==
    LET p == ParseTime(store[ImageWithTag(Image, tagName)], tagName, 0) IN
    [imageTag |-> [tag |-> tagName, date |-> p.date, err |-> NoErr],
     panic |-> FALSE, store |-> store, writes |-> {}]

\* the cache-hit branch: time.Parse of the stored text
FromCache(tagName, store) ==
    LET p == ParseTime(store[ImageWithTag(Image, tagName)], tagName, 0) IN
    [imageTag |-> [tag |-> tagName, date |-> p.date, err |-> p.err],
     panic |-> FALSE, store |-> store, writes |-> {}]

\* the branch taken: "off" without *cache, else what redisClient.Get gave:
\* "error" (an error other than redis.Nil, getFails), "miss" (redis.Nil), "hit"
Lookup(tagName, useCache, store, getFails) ==
    IF ~useCache THEN "off"
    ELSE IF getFails THEN "error"
    ELSE IF store[ImageWithTag(Image, tagName)] = NilValue THEN "miss"
    ELSE "hit"

\* the registry asked whatever redis holds
ResolveTagAlwaysFetches(tagName, useCache, store, getFails, answer, setFails) ==
    FetchAndStore(tagName, store, answer, setFails, useCache)
    @@ [reads |-> IF useCache THEN {ImageWithTag(Image, tagName)} ELSE {},
        fetches |-> 1]

\* redis used whatever *cache says
ResolveTagAlwaysCache(tagName, useCache, store, getFails, answer, setFails) ==
    IF store[ImageWithTag(Image, tagName)] = NilValue
    THEN FetchAndStore(tagName, store, answer, setFails, TRUE)
         @@ [reads |-> {ImageWithTag(Image, tagName)}, fetches |-> 1]
    ELSE FromCache(tagName, store)
         @@ [reads |-> {ImageWithTag(Image, tagName)}, fetches |-> 0]

\* getFails: redisClient.Get fails with an error other than redis.Nil
ResolveTag(tagName, useCache, store, getFails, answer, setFails) ==
    IF useCache
    THEN IF getFails \/ store[ImageWithTag(Image, tagName)] = NilValue
         THEN FetchAndStore(tagName, store, answer, setFails, TRUE)
              @@ [reads |-> {ImageWithTag(Image, tagName)}, fetches |-> 1]
         ELSE FromCache(tagName, store)
              @@ [reads |-> {ImageWithTag(Image, tagName)}, fetches |-> 0]
    ELSE FetchAndStore(tagName, store, answer, FALSE, FALSE)
         @@ [reads |-> {}, fetches |-> 1]

\* no manifest was asked for
NoAnswer == [body |-> EmptyBody, err |-> NoErr]

----------------------------------------------------------------------------
(* getNewestTag and its workers *)

NoOutput == [Tag |-> <<>>, Image |-> <<>>, ImageWithTag |-> <<>>]
Workers == 1..MaxThreads

\* the workers stopped as soon as getNewestTag has returned
RunningUntilReturn == pc \notin {"panic", "done"}

\* the process lives: no goroutine has panicked.  Workers keep running after
\* getNewestTag has returned, until main ends the process.
Running == pc # "panic"

\* where getNewestTag goes on after getTagsList failed: it returns
AfterListErrorGoesOn == "spawn"
AfterListError == "done"

\* output.Image = image; tagList, err := getTagsList(...); if err != nil return
GetTagsList ==
    /\ pc = "start"
    /\ \E answer \in TagsListAnswers :
         LET l == getTagsList(answer) IN
         IF l.err # NoErr
         THEN /\ retErr' = l.err
              /\ pc' = AfterListError
              /\ UNCHANGED <<tagList, numJobs>>
         ELSE /\ tagList' = l.tags
              /\ numJobs' = Len(l.tags)
              /\ pc' = "spawn"
              /\ UNCHANGED retErr
    /\ output' = [output EXCEPT !.Image = Image]
    /\ UNCHANGED <<threads, cache, jobs, jobsClosed, results, next, a, tags,
                   wpc, wtag, redisStore>>
    /\ UNCHANGED <<getVars, histVars, fnVars>>

\* jobs, results := make(chan, numJobs); for w := 1; w <= *threads; w++ { go ... }
SpawnWorkers ==
    /\ pc = "spawn"
    /\ wpc' = [w \in Workers |-> IF w <= threads THEN "range" ELSE "none"]
    /\ pc' = "enqueue"
    /\ UNCHANGED <<threads, cache, tagList, numJobs, jobs, jobsClosed, results,
                   next, a, tags, output, retErr, wtag, redisStore>>
    /\ UNCHANGED <<getVars, histVars, fnVars>>

\* results, or jobs, with room for one item less
ResultsCapShort == numJobs - 1
JobsCapShort == numJobs - 1

\* jobs := make(chan string, numJobs); results := make(chan ImageTag, numJobs)
JobsCap == numJobs
ResultsCap == numJobs

\* jobs <- tagName: blocks while the buffer is full
Enqueue ==
    /\ pc = "enqueue"
    /\ next <= numJobs
    /\ Len(jobs) < JobsCap
    /\ jobs' = Append(jobs, tagList[next])
    /\ next' = next + 1
    /\ UNCHANGED <<threads, cache, pc, tagList, numJobs, jobsClosed, results,
                   a, tags, output, retErr, wpc, wtag, redisStore>>
    /\ UNCHANGED <<getVars, histVars, fnVars>>

\* close(jobs)
CloseJobs ==
    /\ pc = "enqueue"
    /\ next > numJobs
    /\ jobsClosed' = TRUE
    /\ pc' = "drain"
    /\ UNCHANGED <<threads, cache, tagList, numJobs, jobs, results, next,
                   a, tags, output, retErr, wpc, wtag, redisStore>>
    /\ UNCHANGED <<getVars, histVars, fnVars>>

\* the drain loop's condition: a <= numJobs
DrainCondShort(k) == k < numJobs
DrainCond(k) == k <= numJobs

\* whether the drain loop returns the error of the result it received
ReturnsOnErrorNever(tag) == FALSE
ReturnsOnError(tag) == tag.err # NoErr

\* tag := <-results; if tag.err != nil { return output, tag.err }; append
Drain ==
    /\ pc = "drain"
    /\ DrainCond(a)
    /\ results # <<>>
    /\ LET tag == Head(results) IN
         /\ results' = Tail(results)
         /\ drained' = Append(drained, tag)
         /\ IF ReturnsOnError(tag)
            THEN /\ retErr' = tag.err
                 /\ pc' = "done"
                 /\ UNCHANGED <<a, tags>>
            ELSE /\ tags' = Append(tags, tag)
                 /\ a' = a + 1
                 /\ UNCHANGED <<retErr, pc>>
    /\ UNCHANGED <<threads, cache, tagList, numJobs, jobs, jobsClosed, next,
                   output, wpc, wtag, redisStore>>
    /\ UNCHANGED <<getVars, fnVars, fetched, cacheReads, cacheWrites, resolved, lateTakes>>


\* the drain loop is over: sort, select, fill the output and return;
\* tags[0] of an empty slice panics
SelectNewest ==
    /\ pc = "drain"
    /\ ~DrainCond(a)
    /\ IF tags = <<>>
       THEN /\ pc' = "panic"
            /\ UNCHANGED <<tags, output>>
       ELSE \* sort.Slice(tags, ...) sorts in place, and
            \* newestTag := selectTagFromConflictingTags(tags) reads the sorted slice
            \E sorted \in {SortByDateDesc(tags)} :
              \E newestTag \in {selectTagFromConflictingTags(sorted)} :
                /\ tags' = sorted
                /\ output' = [output EXCEPT
                                !.Tag = newestTag,
                                !.ImageWithTag = ImageWithTag(Image, newestTag)]
                /\ pc' = "done"
    /\ UNCHANGED <<threads, cache, tagList, numJobs, jobs, jobsClosed, results,
                   next, a, retErr, wpc, wtag, redisStore>>
    /\ UNCHANGED <<getVars, histVars, fnVars>>

\* for tagName := range tags: a job is received
Take(w) ==
    /\ Running
    /\ wpc[w] = "range"
    /\ jobs # <<>>
    /\ wtag' = [wtag EXCEPT ![w] = Head(jobs)]
    /\ jobs' = Tail(jobs)
    /\ wpc' = [wpc EXCEPT ![w] = "resolve"]
    /\ lateTakes' = IF pc = "done" THEN lateTakes \cup {Head(jobs)} ELSE lateTakes
    /\ UNCHANGED <<threads, cache, pc, tagList, numJobs, jobsClosed, results,
                   next, a, tags, output, retErr, redisStore>>
    /\ UNCHANGED <<drained, fetched, cacheReads, cacheWrites, resolved>>
    /\ UNCHANGED <<getVars, fnVars>>

\* for tagName := range tags: once jobs is closed and empty the loop ends and
\* the goroutine returns; nothing it shares changes, so that is a condition
\* on the state and no step of its own
WorkerExited(w) == wpc[w] = "range" /\ jobs = <<>> /\ jobsClosed

\* the body of the iteration, up to and including results <- imageTag (which
\* blocks while the buffer is full); a panic ends the process
ResolveAmong(w, answers) ==
    /\ Running
    /\ wpc[w] = "resolve"
    /\ \E getFails \in (IF cache THEN BOOLEAN ELSE {FALSE}),
          setFails \in (IF cache THEN BOOLEAN ELSE {FALSE}),
          answer \in answers :
         LET r == ResolveTag(wtag[w], cache, redisStore, getFails, answer, setFails) IN
         /\ fetched' = [fetched EXCEPT ![wtag[w]] = @ + r.fetches]
         /\ cacheReads' = cacheReads \cup r.reads
         /\ cacheWrites' = cacheWrites \cup r.writes
         /\ resolved' = Append(resolved,
                [tag |-> wtag[w],
                 lookup |-> Lookup(wtag[w], cache, redisStore, getFails),
                 stored |-> redisStore[ImageWithTag(Image, wtag[w])],
                 answer |-> IF r.fetches = 0 THEN NoAnswer ELSE answer,
                 writes |-> r.writes, panic |-> r.panic, late |-> pc = "done",
                 imageTag |-> r.imageTag])
         /\ redisStore' = r.store
         /\ IF r.panic
            THEN /\ pc' = "panic"
                 /\ UNCHANGED <<results, wpc>>
            ELSE /\ Len(results) < ResultsCap
                 /\ results' = Append(results, r.imageTag)
                 /\ wpc' = [wpc EXCEPT ![w] = "range"]
                 /\ UNCHANGED pc
    /\ UNCHANGED <<threads, cache, tagList, numJobs, jobs, jobsClosed, next, a,
                   tags, output, retErr, wtag, drained, lateTakes>>
    /\ UNCHANGED <<getVars, fnVars>>

\* the iteration against a registry that may give any of the answers
Resolve(w) == ResolveAmong(w, ManifestAnswers(wtag[w]))

\* no function is called on its own
NoOutcome == [kind |-> "none"]
FnIdle ==
    /\ input = <<>>
    /\ outcome = NoOutcome
    /\ before = NoOutcome
    /\ fpc = "idle"

\* no call of retryGetRequest is modelled step by step
GetIdle ==
    /\ retries = MaxRetries
    /\ url = <<>>
    /\ gpc = "idle"
    /\ retry = 0
    /\ responseError = NoErr
    /\ body = EmptyBody
    /\ response = <<>>
    /\ httpGets = [g \in 0..(MaxRetries + 1) |-> "none"]
    /\ getLog = <<>>
    /\ getResult = NoResult

\* getNewestTag has not been called
PoolIdle ==
    /\ pc = "idle"
    /\ tagList = <<>>
    /\ numJobs = 0
    /\ jobs = <<>>
    /\ jobsClosed = FALSE
    /\ results = <<>>
    /\ next = 1
    /\ a = 1
    /\ tags = <<>>
    /\ output = NoOutput
    /\ retErr = NoErr
    /\ wpc = [w \in Workers |-> "none"]
    /\ wtag = [w \in Workers |-> <<>>]
    /\ drained = <<>>
    /\ fetched = [t \in TagNames |-> 0]
    /\ cacheReads = {}
    /\ cacheWrites = {}
    /\ resolved = <<>>
    /\ lateTakes = {}

\* getNewestTag is about to be called
PoolStart ==
    /\ pc = "start"
    /\ tagList = <<>>
    /\ numJobs = 0
    /\ jobs = <<>>
    /\ jobsClosed = FALSE
    /\ results = <<>>
    /\ next = 1
    /\ a = 1
    /\ tags = <<>>
    /\ output = NoOutput
    /\ retErr = NoErr
    /\ wpc = [w \in Workers |-> "none"]
    /\ wtag = [w \in Workers |-> <<>>]
    /\ drained = <<>>
    /\ fetched = [t \in TagNames |-> 0]
    /\ cacheReads = {}
    /\ cacheWrites = {}
    /\ resolved = <<>>
    /\ lateTakes = {}

\* the pool without --cache: any number of threads
Init ==
    /\ GetIdle
    /\ threads \in 1..MaxThreads
    /\ cache = FALSE
    /\ redisStore = [k \in Keys |-> NilValue]
    /\ PoolStart
    /\ FnIdle

\* the pool with --cache and one thread: any initial store
InitCache ==
    /\ GetIdle
    /\ threads = 1
    /\ cache = TRUE
    /\ redisStore \in InitialStores
    /\ PoolStart
    /\ FnIdle

Next ==
    \/ GetTagsList
    \/ SpawnWorkers
    \/ Enqueue
    \/ CloseJobs
    \/ Drain
    \/ SelectNewest
    \/ \E w \in Workers : Take(w)
    \/ \E w \in Workers : Resolve(w)

Spec == Init /\ [][Next]_vars

SpecCache == InitCache /\ [][Next]_vars

\* the steps of the goroutine that runs getNewestTag
Orchestrator ==
    \/ GetTagsList
    \/ SpawnWorkers
    \/ Enqueue
    \/ CloseJobs
    \/ Drain
    \/ SelectNewest

\* the Go scheduler runs every goroutine that can run, and every call a
\* worker makes (registry, redis) returns: a step that stays possible is taken
\* the three ways an iteration can end, which is all the pool's control flow
\* sees of a manifest: a result with an error, a result with a date, a panic
ManifestOutcomes(tagName) ==
    {[body |-> EmptyBody, err |-> HTTPStatusError(ManifestURL(Image, tagName), 404)],
     [body |-> ManifestBody(1, <<V1Compat(Stamp(0, "Z"))>>), err |-> NoErr],
     [body |-> ManifestBody(1, <<>>), err |-> NoErr]}

ResolveOutcome(w) == ResolveAmong(w, ManifestOutcomes(wtag[w]))

NextFair ==
    \/ GetTagsList
    \/ SpawnWorkers
    \/ Enqueue
    \/ CloseJobs
    \/ Drain
    \/ SelectNewest
    \/ \E w \in Workers : Take(w)
    \/ \E w \in Workers : ResolveOutcome(w)

\* the steps of one worker goroutine
Worker(w) == Take(w) \/ ResolveOutcome(w)

Fairness ==
    /\ WF_vars(Orchestrator)
    /\ \A w \in Workers : WF_vars(Worker(w))

SpecFair == Init /\ [][NextFair]_vars /\ Fairness

\* getTagDateUsingCache on its own, with --cache: one goroutine whose tags
\* channel holds the same tag twice and is closed; nobody receives from results
InitTwice ==
    /\ GetIdle
    /\ threads = 1
    /\ cache = TRUE
    /\ redisStore \in InitialStores
    /\ pc = "drain"
    /\ tagList = <<>>
    /\ numJobs = 2
    /\ \E t \in TagNames : jobs = <<t, t>>
    /\ jobsClosed = TRUE
    /\ results = <<>>
    /\ next = 1
    /\ a = 1
    /\ tags = <<>>
    /\ output = NoOutput
    /\ retErr = NoErr
    /\ wpc = [w \in Workers |-> IF w = 1 THEN "range" ELSE "none"]
    /\ wtag = [w \in Workers |-> <<>>]
    /\ drained = <<>>
    /\ fetched = [t \in TagNames |-> 0]
    /\ cacheReads = {}
    /\ cacheWrites = {}
    /\ resolved = <<>>
    /\ lateTakes = {}
    /\ FnIdle

NextTwice ==
    \/ \E w \in Workers : Take(w)
    \/ \E w \in Workers : Resolve(w)

SpecTwice == InitTwice /\ [][NextTwice]_vars

----------------------------------------------------------------------------
(* getNewestManifestHistoryItem on its own *)

\* the v1Compatibility texts a history can hold
HistoryItems ==
    {V1Compat(st) : st \in Stamps} \cup {V1Compat(BadStamp), GarbageItem}

RECURSIVE SeqsUpTo(_, _)
SeqsUpTo(S, n) ==
    IF n = 0 THEN {<<>>}
    ELSE LET shorter == SeqsUpTo(S, n - 1) IN
         shorter \cup {Append(q, x) : q \in {r \in shorter : Len(r) = n - 1}, x \in S}

Histories == SeqsUpTo(HistoryItems, MaxHistory)

\* the tag whose manifest it is
HistoryTag == NamePool[1]

Swap(q, i, j) ==
    [k \in 1..Len(q) |-> IF k = i THEN q[j] ELSE IF k = j THEN q[i] ELSE q[k]]

\* date, err := getNewestManifestHistoryItem(manifest)
CallNewestItem ==
    /\ fpc = "call"
    /\ outcome' = getNewestManifestHistoryItem(input, HistoryTag)
    /\ fpc' = "returned"
    /\ UNCHANGED <<input, before>>
    /\ UNCHANGED <<getVars, poolVars, histVars>>

\* the same call for the history with two of its items exchanged; before
\* keeps what the call returned for the history in its first order
CallReordered ==
    /\ fpc = "returned"
    /\ ~outcome.panic
    /\ \E i, j \in 1..Len(input) :
         /\ i < j
         /\ input' = Swap(input, i, j)
         /\ outcome' = getNewestManifestHistoryItem(Swap(input, i, j), HistoryTag)
    /\ before' = IF before = NoOutcome THEN outcome ELSE before
    /\ UNCHANGED fpc
    /\ UNCHANGED <<getVars, poolVars, histVars>>

InitHistory ==
    /\ GetIdle
    /\ threads = 1
    /\ cache = FALSE
    /\ redisStore = [k \in Keys |-> NilValue]
    /\ PoolIdle
    /\ input \in Histories
    /\ outcome = NoOutcome
    /\ before = NoOutcome
    /\ fpc = "call"

NextHistory ==
    \/ CallNewestItem
    \/ CallReordered

SpecHistory == InitHistory /\ [][NextHistory]_vars

----------------------------------------------------------------------------
(* parseImageName on its own *)

\* the characters of an image name that matter to parseImageName, and two
\* that do not
ImageChars == {"a", ".", "/", ":"}
ImageNames == SeqsUpTo(ImageChars, MaxLen)

\* imageParts, err := parseImageName(image)
CallParseImageName ==
    /\ fpc = "call"
    /\ outcome' = parseImageName(input)
    /\ fpc' = "returned"
    /\ UNCHANGED <<input, before>>
    /\ UNCHANGED <<getVars, poolVars, histVars>>

InitParse ==
    /\ GetIdle
    /\ threads = 1
    /\ cache = FALSE
    /\ redisStore = [k \in Keys |-> NilValue]
    /\ PoolIdle
    /\ input \in ImageNames
    /\ outcome = NoOutcome
    /\ before = NoOutcome
    /\ fpc = "call"

NextParse == CallParseImageName

SpecParse == InitParse /\ [][NextParse]_vars

\* one call of retryGetRequest, step by step; getNewestTag is not running
InitGet ==
    /\ retries \in -1..MaxRetries
    /\ url \in GetUrls
    /\ gpc = "loop"
    /\ retry = 0
    /\ responseError = NoErr
    /\ body = EmptyBody
    /\ response = <<>>
    /\ httpGets = [g \in 0..(MaxRetries + 1) |-> "none"]
    /\ getLog = <<>>
    /\ getResult = NoResult
    /\ threads = 1
    /\ cache = FALSE
    /\ redisStore = [k \in Keys |-> NilValue]
    /\ PoolIdle
    /\ FnIdle

NextGet ==
    \/ StartAttempt
    \/ ExitLoop
    \/ \E g \in DOMAIN httpGets : HttpGetSend(g)
    \/ Receive
    \/ Timeout

SpecGet == InitGet /\ [][NextGet]_vars

\* the steps of the goroutine that runs retryGetRequest
GetCaller ==
    \/ StartAttempt
    \/ ExitLoop
    \/ Receive
    \/ Timeout

\* the caller runs when it can, and every request of httpGet ends (the
\* http.Client has its own timeout) so that the goroutine reaches its send
Goroutines == 0..(MaxRetries + 1)
FairnessGet ==
    /\ WF_vars(GetCaller)
    /\ \A g \in Goroutines : WF_vars(HttpGetSend(g))

SpecGetFair == InitGet /\ [][NextGet]_vars /\ FairnessGet


----------------------------------------------------------------------------
(* Properties of retryGetRequest, checked under SpecGet *)

IsResponse(e) == e.kind = "response"
IsStatus(e) == IsResponse(e) /\ e.msg.err = NoErr
LastEntry == getLog[Len(getLog)]

\* C6: with retry count R >= 0 one call starts at most R+1 attempts; when
\* every attempt was answered with a status >= 500 the call has made exactly
\* R+1 attempts and returns "", HTTP status error of the status answered last.
C6_RetryBudget ==
    retries >= 0 =>
        /\ Attempts <= retries + 1
        /\ ( /\ gpc = "done"
             /\ \A i \in 1..Len(getLog) :
                    IsStatus(getLog[i]) /\ getLog[i].msg.statusCode >= 500 )
           => /\ Attempts = retries + 1
              /\ Len(getLog) = retries + 1
              /\ getResult = [body |-> EmptyBody,
                              err |-> HTTPStatusRetryError(url, retries,
                                          LastEntry.msg.statusCode)]

\* C6 witness: R >= 1 and all R+1 attempts were answered 503
C6_Witness ==
    /\ gpc = "done"
    /\ retries >= 1
    /\ Len(getLog) = retries + 1
    /\ \A i \in 1..Len(getLog) :
           IsStatus(getLog[i]) /\ getLog[i].msg.statusCode = 503
    /\ getResult.err.code = 503

\* C7: a received response with status 200 ends the call: it is the last
\* thing received, the call returns its body with a nil error whatever the
\* earlier iterations recorded, and no attempt follows it.
C7_Status200Succeeds ==
    \A i \in 1..Len(getLog) :
        (IsStatus(getLog[i]) /\ getLog[i].msg.statusCode = 200)
        => /\ i = Len(getLog)
           /\ gpc = "done"
           /\ getResult = [body |-> getLog[i].msg.body, err |-> NoErr]
           /\ Attempts = Len(getLog)

\* C7 witness: a timeout, then a 503, then a 200
C7_Witness ==
    /\ gpc = "done"
    /\ Len(getLog) = 3
    /\ getLog[1].kind = "timeout"
    /\ IsStatus(getLog[2]) /\ getLog[2].msg.statusCode = 503
    /\ IsStatus(getLog[3]) /\ getLog[3].msg.statusCode = 200
    /\ getResult.err = NoErr

\* C8: a received response with a status other than 200 and below 500 ends
\* the call at once with the HTTP status error of that status; no attempt
\* follows it, whatever budget remains.
C8_ClientErrorNotRetried ==
    \A i \in 1..Len(getLog) :
        ( /\ IsStatus(getLog[i])
          /\ getLog[i].msg.statusCode # 200
          /\ getLog[i].msg.statusCode < 500 )
        => /\ i = Len(getLog)
           /\ gpc = "done"
           /\ getResult = [body |-> EmptyBody,
                           err |-> HTTPStatusError(url, getLog[i].msg.statusCode)]
           /\ Attempts = Len(getLog)

\* C8 witness: a 404 on the first attempt with two retries left
C8_Witness ==
    /\ gpc = "done"
    /\ retries = 2
    /\ Len(getLog) = 1
    /\ IsStatus(getLog[1]) /\ getLog[1].msg.statusCode = 404
    /\ Attempts = 1

\* C9: a received response carrying a transport error ends the call at once
\* with that error; no attempt follows it, whatever budget remains.
C9_TransportErrorNotRetried ==
    \A i \in 1..Len(getLog) :
        (IsResponse(getLog[i]) /\ getLog[i].msg.err # NoErr)
        => /\ i = Len(getLog)
           /\ gpc = "done"
           /\ getResult = [body |-> EmptyBody, err |-> getLog[i].msg.err]
           /\ Attempts = Len(getLog)

\* C9 witness: a transport error on the first attempt with two retries left
C9_Witness ==
    /\ gpc = "done"
    /\ retries = 2
    /\ Len(getLog) = 1
    /\ getLog[1].msg.err = TransportError("transport")
    /\ Attempts = 1

\* C10: an iteration that times out with budget left is followed by the next
\* attempt (the loop goes on with retry + 1), and a call whose R+1 iterations
\* all timed out returns "", timeout error.
C10_TimeoutRetried ==
    /\ \A i \in 1..Len(getLog) :
           (getLog[i].kind = "timeout" /\ getLog[i].retry < retries)
           => \/ i < Len(getLog)
              \/ /\ gpc \in {"loop", "select"}
                 /\ retry = getLog[i].retry + 1
                 /\ gpc = "loop" => ENABLED StartAttempt
    /\ ( /\ gpc = "done"
         /\ retries >= 0
         /\ \A i \in 1..Len(getLog) : getLog[i].kind = "timeout" )
       => /\ Len(getLog) = retries + 1
          /\ Attempts = retries + 1
          /\ getResult = [body |-> EmptyBody, err |-> TimeoutError(url, retries)]

\* C10 witness: R >= 1 and every iteration timed out
C10_Witness ==
    /\ gpc = "done"
    /\ retries >= 1
    /\ Len(getLog) = retries + 1
    /\ \A i \in 1..Len(getLog) : getLog[i].kind = "timeout"
    /\ getResult.err.kind = "Timeout"

----------------------------------------------------------------------------
(* Properties of getNewestTag and its workers, checked under Spec *)

\* every result sent so far: results leave the channel only through Drain
Sent == drained \o results
\* how many of the results in q are for tag t
Occurrences(q, t) == Cardinality({i \in 1..Len(q) : q[i].tag = t})
\* the positions of the results in q that carry an error
ErrorsIn(q) == {i \in 1..Len(q) : q[i].err # NoErr}
Returned == pc = "done"
ReturnedTag == Returned /\ retErr = NoErr

\* C1 as stated: whenever getNewestTag has returned, with a result or with an
\* error, it has drained exactly N results, exactly one for each tag of the list.
C1_AllDrainedOnReturn ==
    Returned =>
        /\ Len(drained) = numJobs
        /\ \A i \in 1..Len(tagList) : Occurrences(drained, tagList[i]) = 1

\* C1 amended: no tag ever has more than one result; when getNewestTag returns
\* a tag it has drained exactly N results, one for each tag of the list; when
\* it returns the error of a result it has drained at most N results, of which
\* the last one, and only it, carries an error.
C1_DrainedOnReturn ==
    /\ \A t \in TagNames : Occurrences(Sent, t) <= 1
    /\ \A i \in 1..Len(Sent) : \E k \in 1..Len(tagList) : tagList[k] = Sent[i].tag
    /\ ReturnedTag =>
          /\ Len(drained) = numJobs
          /\ numJobs = Len(tagList)
          /\ \A i \in 1..Len(tagList) : Occurrences(drained, tagList[i]) = 1
    /\ (Returned /\ retErr # NoErr /\ drained # <<>>) =>
          /\ Len(drained) <= numJobs
          /\ ErrorsIn(drained) = {Len(drained)}

\* C1 witness: two tags, two workers, the second tag's result arrived first
C1_Witness ==
    /\ ReturnedTag
    /\ threads = 2
    /\ Len(tagList) = 2
    /\ Len(drained) = 2
    /\ drained[1].tag = tagList[2]
    /\ drained[2].tag = tagList[1]

\* C2: once getNewestTag has returned: if a drained result carries an error,
\* the error returned is that of the first such result and the output names no
\* tag; and a tag is returned only if N results were drained, one per tag of
\* the list, none of them (and no result sent at all) carrying an error.
C2_FailFast ==
    Returned =>
        /\ ErrorsIn(drained) # {} =>
              /\ \E i \in ErrorsIn(drained) :
                    /\ \A j \in ErrorsIn(drained) : i <= j
                    /\ retErr = drained[i].err
              /\ output.Tag = <<>>
              /\ output.ImageWithTag = <<>>
        /\ retErr # NoErr => output.Tag = <<>> /\ output.ImageWithTag = <<>>
        /\ (retErr = NoErr \/ output.Tag # <<>>) =>
              /\ retErr = NoErr
              /\ output.Tag # <<>>
              /\ Len(drained) = Len(tagList)
              /\ ErrorsIn(Sent) = {}
              /\ \A i \in 1..Len(tagList) : Occurrences(drained, tagList[i]) = 1

\* C2 witness: the first tag resolved, the second failed, and its error is
\* returned with an empty output
C2_Witness ==
    /\ Returned
    /\ Len(tagList) = 2
    /\ Len(drained) = 2
    /\ drained[1].err = NoErr
    /\ drained[2].err = HTTPStatusError(ManifestURL(Image, drained[2].tag), 404)
    /\ retErr = drained[2].err
    /\ output.Tag = <<>>

\* the result drained for the tag the output names
SelectedResult == CHOOSE r \in {drained[i] : i \in 1..Len(drained)} : r.tag = output.Tag

\* C3: when getNewestTag returns a tag, no tag of the list was resolved to a
\* date after the date of the tag returned.
C3_SelectedIsNewest ==
    ReturnedTag =>
        /\ \E i \in 1..Len(drained) : drained[i].tag = output.Tag
        /\ \A i \in 1..Len(drained) : ~After(drained[i].date, SelectedResult.date)

\* C3 witness: two tags with different dates, the older one arrived first
C3_Witness ==
    /\ ReturnedTag
    /\ Len(drained) = 2
    /\ After(drained[2].date, drained[1].date)
    /\ output.Tag = drained[2].tag

\* the largest instant among the results in q
IsNewest(q, i) == \A j \in 1..Len(q) : ~After(q[j].date, q[i].date)
\* the tags of q whose date is the same instant as the newest
NewestTags(q) == {q[i].tag : i \in {k \in 1..Len(q) : IsNewest(q, k)}}

\* C4 as stated: the tag returned is the smallest, in string order, of the
\* tags whose date equals the newest date, whatever the order of arrival.
C4_TieBreakSmallestName ==
    ReturnedTag =>
        /\ output.Tag \in NewestTags(drained)
        /\ \A t \in NewestTags(drained) : ~StrLess(t, output.Tag)

\* C5 as stated: a run whose tag list is empty ends by returning an error
\* (EmptyTagListError) without having started any worker; it does not panic.
C5_EmptyTagListIsError ==
    (tagList = <<>> /\ pc \in {"done", "panic"}) =>
        /\ pc = "done"
        /\ retErr # NoErr
        /\ \A w \in Workers : wpc[w] = "none"

----------------------------------------------------------------------------
(* Properties of getTagDateUsingCache, checked under SpecCache, SpecTwice
   and Spec *)

Entries == {resolved[i] : i \in 1..Len(resolved)}
Key(e) == ImageWithTag(Image, e.tag)
\* the registry was asked for the manifest of the entry's tag
Fetched(e) == e.answer # NoAnswer
\* what getTagDate gives for the manifest the registry answered with
FromRegistry(e) == getTagDate(e.tag, e.answer)
WriteFailed(e) == \E wr \in e.writes : ~wr.ok
\* two dates are the same timestamp: the same instant at the same offset
SameTimestamp(t, u) == t.inst = u.inst /\ t.loc.zone = u.loc.zone

\* C11: with --cache, an iteration whose redis read failed (not redis.Nil)
\* asked the registry, reports exactly what getTagDate gave and, when that was
\* a date, attempted the redis write; an iteration whose redis write failed
\* reports the date just computed with no error.
C11_CacheFailuresNotFatal ==
    cache =>
        \A e \in Entries :
            /\ e.lookup = "error" =>
                  /\ Fetched(e)
                  /\ e.panic = FromRegistry(e).panic
                  /\ ~e.panic => /\ e.imageTag.err = FromRegistry(e).err
                                 /\ e.imageTag.date = FromRegistry(e).date
                  /\ (~e.panic /\ e.imageTag.err = NoErr) => e.writes # {}
            /\ WriteFailed(e) =>
                  /\ ~e.panic
                  /\ e.imageTag.err = NoErr
                  /\ e.imageTag.date = FromRegistry(e).date
                  /\ FromRegistry(e).err = NoErr

\* C11 witness: the read of a cached key failed, the write failed too, and
\* getNewestTag returned that tag
C11_Witness ==
    /\ cache
    /\ ReturnedTag
    /\ \E e \in Entries :
          /\ e.lookup = "error"
          /\ e.stored # NilValue
          /\ WriteFailed(e)
          /\ output.Tag = e.tag

\* C12: with --cache, an iteration that found its key image:tag in redis asked
\* the registry for nothing and wrote nothing to redis, and when the value
\* stored is a timestamp it reports that timestamp with no error.
C12_HitUsesStoredTimestamp ==
    cache =>
        \A e \in Entries :
            e.lookup = "hit" =>
                /\ ~Fetched(e)
                /\ e.writes = {}
                /\ ~e.panic
                /\ fetched[e.tag] = 0
                /\ \A wr \in cacheWrites : wr.key # Key(e)
                /\ Key(e) \in cacheReads
                /\ e.stored.kind = "rfc3339" =>
                      /\ e.imageTag.err = NoErr
                      /\ e.imageTag.date.inst = e.stored.inst
                      /\ FormatTime(e.imageTag.date) = e.stored

\* C12 witness: a hit on a timestamp written with an offset, and getNewestTag
\* returned that tag
C12_Witness ==
    /\ cache
    /\ ReturnedTag
    /\ \E e \in Entries :
          /\ e.lookup = "hit"
          /\ e.stored = Stamp(0, "+01:00")
          /\ e.imageTag.date.inst = 0
          /\ output.Tag = e.tag

\* C13: with --cache, every redis write was made by an iteration whose read
\* missed or failed and whose getTagDate gave a date, under the key image:tag
\* and with that date in RFC3339Nano; no other write has happened, and a
\* write that succeeded is what redis holds under the key.
C13_CacheAside ==
    cache =>
        /\ \A e \in Entries :
              /\ e.writes # {} =>
                    /\ e.lookup \in {"miss", "error"}
                    /\ Fetched(e)
                    /\ ~e.panic
                    /\ FromRegistry(e).err = NoErr
                    /\ e.imageTag.err = NoErr
                    /\ e.imageTag.date = FromRegistry(e).date
                    /\ \A wr \in e.writes :
                          /\ wr.key = Key(e)
                          /\ wr.value = FormatTime(e.imageTag.date)
                          /\ wr.value.kind = "rfc3339"
              /\ (e.lookup = "hit" \/ e.imageTag.err # NoErr \/ e.panic) =>
                    e.writes = {}
        /\ cacheWrites = UNION {e.writes : e \in Entries}
        /\ \A wr \in cacheWrites : wr.ok => redisStore[wr.key] = wr.value

\* C13 witness: a miss, a date from the registry and a successful write of it
C13_Witness ==
    /\ cache
    /\ \E e \in Entries :
          /\ e.lookup = "miss"
          /\ e.imageTag.err = NoErr
          /\ e.imageTag.date.inst = MaxDate
          /\ e.writes = {[key |-> Key(e), value |-> Stamp(MaxDate, "+01:00"), ok |-> TRUE]}
          /\ redisStore[Key(e)] = Stamp(MaxDate, "+01:00")

C15_NoCacheNoRedis ==
    ~cache =>
        /\ cacheReads = {}
        /\ cacheWrites = {}
        /\ redisStore = [k \in Keys |-> NilValue]
        /\ \A e \in Entries :
              /\ e.lookup = "off"
              /\ Fetched(e)
              /\ e.writes = {}
              /\ fetched[e.tag] >= 1
              /\ e.panic = FromRegistry(e).panic
              /\ ~e.panic => /\ e.imageTag.err = FromRegistry(e).err
                             /\ e.imageTag.date = FromRegistry(e).date

\* C15 witness: without --cache two tags were resolved from the registry and
\* getNewestTag returned one of them
C15_Witness ==
    /\ ~cache
    /\ ReturnedTag
    /\ Len(resolved) = 2
    /\ \A e \in Entries : Fetched(e) /\ e.imageTag.err = NoErr
    /\ fetched[resolved[1].tag] = 1
    /\ fetched[resolved[2].tag] = 1

----------------------------------------------------------------------------
(* Properties of getNewestManifestHistoryItem and getTagDate *)

\* the item is JSON and its created text is a timestamp
Decodes(item) == item.kind = "json" /\ item.created.kind = "rfc3339"
AllDecode(history) == \A k \in 1..Len(history) : Decodes(history[k])
\* the largest instant of the created values
IsMaxInstant(n, history) ==
    /\ \E k \in 1..Len(history) : history[k].created.inst = n
    /\ \A k \in 1..Len(history) : history[k].created.inst <= n

\* C16: for a non-empty history whose items all decode,
\* getNewestManifestHistoryItem returns, with no error, the latest instant of
\* the created values, and returns that instant for every order of the items.
\* Timestamps are compared as instants (time.Time.Equal).
C16_NewestIsMaximum ==
    (fpc = "returned" /\ input # <<>> /\ AllDecode(input)) =>
        /\ ~outcome.panic
        /\ outcome.err = NoErr
        /\ IsMaxInstant(outcome.date.inst, input)
        /\ before # NoOutcome =>
              /\ before.err = NoErr
              /\ before.date.inst = outcome.date.inst

\* C16 witness: three items, the latest first at the start and last after the
\* exchanges, one of the others at the same instant with another offset
C16_Witness ==
    /\ fpc = "returned"
    /\ before # NoOutcome
    /\ input = <<V1Compat(Stamp(0, "Z")), V1Compat(Stamp(MaxDate, "Z")),
                 V1Compat(Stamp(MaxDate, "+01:00"))>>
    /\ outcome.date.inst = MaxDate
    /\ before.date = [inst |-> MaxDate, loc |-> FixedZone("+01:00", HistoryTag, 1)]

\* a version 1 manifest came back for the entry's tag
GotManifest(e) ==
    Fetched(e) /\ e.answer.err = NoErr /\ e.answer.body.kind = "manifest"

\* C17 as stated: an iteration whose version 1 manifest has an empty history,
\* or an item that does not decode, reports an error for its tag and does not
\* panic.
C17_HistoryErrorsReturned ==
    \A e \in Entries :
        ( /\ GotManifest(e)
          /\ e.answer.body.schemaVersion = 1
          /\ (e.answer.body.history = <<>> \/ ~AllDecode(e.answer.body.history)) )
        => /\ ~e.panic
           /\ e.imageTag.err # NoErr

\* C18: with --cache, an iteration whose manifest has a schemaVersion other
\* than 1 reports the wrong-manifest-version error and the zero time, does not
\* write to redis, and leaves the tag's key as it was.
C18_WrongSchemaVersionFails ==
    cache =>
        \A e \in Entries :
            (GotManifest(e) /\ e.answer.body.schemaVersion # 1) =>
                /\ ~e.panic
                /\ e.imageTag.err = SchemaVersionError
                /\ e.imageTag.date = ZeroTime
                /\ e.writes = {}
                /\ \A wr \in cacheWrites : wr.key # Key(e)
                /\ redisStore[Key(e)] = e.stored

\* C18 witness: a miss, a schema 2 manifest with a dated history item, and
\* getNewestTag returned the error
C18_Witness ==
    /\ cache
    /\ Returned
    /\ retErr = SchemaVersionError
    /\ \E e \in Entries :
          /\ e.lookup = "miss"
          /\ e.answer.body = ManifestBody(2, <<V1Compat(Stamp(MaxDate, "Z"))>>)
          /\ e.imageTag = drained[Len(drained)]

----------------------------------------------------------------------------
(* Properties of getNewestTag before its workers start *)

\* the errors getTagsList can return
ListErrors == {getTagsList(answer).err : answer \in TagsListAnswers} \ {NoErr}

\* C19: an error that getNewestTag has without having received any result is
\* the error of getTagsList, and then getNewestTag has returned it with no tag
\* in the output, no worker has been started, no manifest was asked for and
\* redis was neither read nor written.
C19_ListFailureBeforeWorkers ==
    (retErr # NoErr /\ drained = <<>>) =>
        /\ retErr \in ListErrors
        /\ pc = "done"
        /\ output.Tag = <<>>
        /\ tagList = <<>>
        /\ \A w \in Workers : wpc[w] = "none"
        /\ jobs = <<>> /\ results = <<>>
        /\ resolved = <<>>
        /\ \A t \in TagNames : fetched[t] = 0
        /\ cacheReads = {}
        /\ cacheWrites = {}

\* C19 witness: with --cache and a filled redis the body of the tag list did
\* not decode, and getNewestTag returned that error
C19_Witness ==
    /\ cache
    /\ \A k \in Keys : redisStore[k] # NilValue
    /\ pc = "done"
    /\ retErr = UnmarshalError
    /\ drained = <<>>

----------------------------------------------------------------------------
(* Properties of parseImageName, checked under SpecParse *)

HasSlash(name) == \E k \in 1..Len(name) : name[k] = "/"

\* C20: for an image name without a slash parseImageName returns, with no
\* error, the host registry.hub.docker.com and the path "library/" followed
\* by the whole name.
C20_NoSlashIsLibrary ==
    (fpc = "returned" /\ ~HasSlash(input)) =>
        /\ outcome.err = NoErr
        /\ outcome.host = dockerRegistryDomain
        /\ outcome.path = <<"l","i","b","r","a","r","y","/">> \o input

\* C20 witness: a name with dots and a colon and no slash
C20_Witness ==
    /\ fpc = "returned"
    /\ input = <<"a", ".", "a", ":">>
    /\ outcome.host = dockerRegistryDomain
    /\ outcome.path = <<"l","i","b","r","a","r","y","/","a",".","a",":">>

\* the position of the first slash of a name that has one
FirstSlash(name) ==
    CHOOSE k \in 1..Len(name) :
        name[k] = "/" /\ \A j \in 1..(k - 1) : name[j] # "/"
\* the name up to its first slash, and what follows that slash
FirstSegment(name) == SubSeq(name, 1, FirstSlash(name) - 1)
AfterFirstSlash(name) == SubSeq(name, FirstSlash(name) + 1, Len(name))
HasDot(name) == \E k \in 1..Len(name) : name[k] = "."

\* C21: for an image name with a slash parseImageName returns no error and,
\* when the part before the first slash has a dot, that part as host and
\* everything after the first slash as path; when it has none, the host
\* registry.hub.docker.com and the whole name as path.
C21_SlashSplitsHostAndPath ==
    (fpc = "returned" /\ HasSlash(input)) =>
        /\ outcome.err = NoErr
        /\ HasDot(FirstSegment(input)) =>
              /\ outcome.host = FirstSegment(input)
              /\ outcome.path = AfterFirstSlash(input)
        /\ ~HasDot(FirstSegment(input)) =>
              /\ outcome.host = dockerRegistryDomain
              /\ outcome.path = input

\* C21 witness: a host with a dot and a path of two parts
C21_Witness ==
    /\ fpc = "returned"
    /\ input = <<".", "/", "a", "/">>
    /\ outcome.host = <<".">>
    /\ outcome.path = <<"a", "/">>

\* C22 as stated: parseImageName returns an error for the empty name and for
\* no other name.
C22_EmptyNameIsError ==
    fpc = "returned" => (outcome.err # NoErr <=> input = <<>>)

----------------------------------------------------------------------------
(* Properties of the pool once getNewestTag has returned *)

ReturnedError == pc = "done" /\ retErr # NoErr /\ drained # <<>>

\* C23: once getNewestTag has returned the error of a result, nothing stops
\* its workers: a worker waiting for a job can still receive a tag left in
\* jobs, and a worker that has received one can still resolve it.
C23_NoCancellation ==
    ReturnedError =>
        \A w \in Workers :
            /\ (wpc[w] = "range" /\ jobs # <<>>) => ENABLED Take(w)
            /\ wpc[w] = "resolve" => ENABLED Resolve(w)

\* C23 witness: after getNewestTag returned a tag's error, a worker received
\* another tag from jobs and asked the registry for its manifest
C23_Witness ==
    /\ ReturnedError
    /\ \E e \in Entries :
          /\ e.tag \in lateTakes
          /\ e.late
          /\ Fetched(e)
          /\ e.tag # drained[Len(drained)].tag

\* the workers that have received a tag and not yet sent its result
InFlight == {w \in Workers : wpc[w] = "resolve"}

\* C24: for a tag list of length N, no tag has more than one result, a tag
\* with a result has been received from jobs, at most N results were sent and
\* results never holds more than N of them; a worker with a result to send
\* finds room in results and getNewestTag finds room in jobs for every tag,
\* also after getNewestTag has returned an error.
C24_ChannelCapacity ==
    pc \notin {"start", "spawn"} =>
        /\ numJobs = Len(tagList)
        /\ \A i \in 1..Len(tagList) :
              /\ Occurrences(Sent, tagList[i]) <= 1
              /\ Occurrences(Sent, tagList[i]) = 1 =>
                    /\ i < next
                    /\ \A k \in 1..Len(jobs) : jobs[k] # tagList[i]
                    /\ \A w \in InFlight : wtag[w] # tagList[i]
        /\ Len(Sent) <= numJobs
        /\ Len(results) <= numJobs
        /\ Len(jobs) <= numJobs
        /\ Len(Sent) + Cardinality(InFlight) + Len(jobs) <= numJobs
        /\ \A w \in InFlight : Len(results) < ResultsCap
        /\ (pc = "enqueue" /\ next <= numJobs) => Len(jobs) < JobsCap

\* C24 witness: getNewestTag returned the error of the first result, and the
\* result of the other tag was sent all the same and stays in results
C24_Witness ==
    /\ ReturnedError
    /\ numJobs = 2
    /\ Len(drained) = 1
    /\ Len(results) = 1
    /\ results[1].tag \in lateTakes

----------------------------------------------------------------------------
(* Termination of the pool, checked under SpecFair *)

\* every worker that was started has left its loop
AllWorkersExited == \A w \in Workers : wpc[w] = "none" \/ WorkerExited(w)

\* C25: with fair scheduling, unless the process ends in a panic,
\* getNewestTag returns, every worker leaves its loop, and things stay so:
\* getNewestTag does not wait on results for ever and no worker waits on jobs
\* or results for ever.
C25_PoolTerminates ==
    <>[](pc = "panic" \/ (pc = "done" /\ AllWorkersExited))

\* C25 witness: two tags, two workers, a tag returned and both workers out of
\* their loops
C25_Witness ==
    /\ ReturnedTag
    /\ threads = 2
    /\ Len(tagList) = 2
    /\ \A w \in Workers : WorkerExited(w)

----------------------------------------------------------------------------
(* Properties of the response channel of retryGetRequest, checked under
   SpecGet and SpecGetFair *)

\* C26 as stated: a response received in iteration k of the loop was sent by
\* the httpGet goroutine started in iteration k.
C26_ResponseOfOwnAttempt ==
    \A i \in 1..Len(getLog) :
        IsResponse(getLog[i]) => getLog[i].from = getLog[i].retry

\* C27 as stated: every httpGet goroutine that was started ends: it completes
\* its send on response, whether its iteration timed out or retryGetRequest
\* has returned.
C27_NoLeakedGoroutine ==
    <>[](\A g \in DOMAIN httpGets : httpGets[g] \in {"none", "done"})

\* C28 as stated: whatever *retries is, retryGetRequest returns no error only
\* if one of its iterations received a response with status 200, whose body
\* it returns.
C28_SuccessNeeds200 ==
    (gpc = "done" /\ getResult.err = NoErr) =>
        \E i \in 1..Len(getLog) :
            /\ IsStatus(getLog[i])
            /\ getLog[i].msg.statusCode = 200
            /\ getResult.body = getLog[i].msg.body

----------------------------------------------------------------------------
(* Properties of a hit on a value that is no timestamp, and of ties *)

BadHit(e) == e.lookup = "hit" /\ e.stored.kind # "rfc3339"

\* C29: with --cache, an iteration that found under its key a text that is
\* no RFC3339Nano timestamp reports the error of time.Parse for its tag, asks
\* the registry for nothing, writes nothing to redis and leaves the text in
\* place; once getNewestTag has received that result it has returned the
\* error and no tag (a worker still running may panic afterwards).
C29_BadCacheEntryFails ==
    cache =>
        /\ \A e \in Entries :
              BadHit(e) =>
                  /\ ~e.panic
                  /\ e.imageTag.err = TimeParseError
                  /\ e.imageTag.date = ZeroTime
                  /\ ~Fetched(e)
                  /\ fetched[e.tag] = 0
                  /\ e.writes = {}
                  /\ redisStore[Key(e)] = e.stored
                  /\ (\E i \in 1..Len(drained) : drained[i].tag = e.tag) =>
                        /\ pc \in {"done", "panic"}
                        /\ retErr = TimeParseError
                        /\ output.Tag = <<>>
        /\ ReturnedTag => \A e \in Entries : ~BadHit(e) \/ e.late

\* C29 witness: the key of the first tag holds a text that is no timestamp,
\* and getNewestTag returned the parse error
C29_Witness ==
    /\ cache
    /\ pc = "done"
    /\ retErr = TimeParseError
    /\ Len(tagList) = 2
    /\ Len(drained) = 1
    /\ \E e \in Entries : BadHit(e) /\ e.stored = BadStamp /\ e.tag = tagList[1]

\* neither date is After the other: what the sort takes for equal
SameInstant(t, u) == ~After(t, u) /\ ~After(u, t)

\* C30 as stated: for any two dates of resolved tags, the == that
\* selectTagFromConflictingTags collects ties with holds exactly when neither
\* date is After the other; so when getNewestTag returns a tag, every tag at
\* the instant of tags[0] is among the candidates.
C30_TieIsSameInstant ==
    /\ \A i, j \in 1..Len(Sent) :
          (Sent[i].err = NoErr /\ Sent[j].err = NoErr) =>
              (TimeEq(Sent[i].date, Sent[j].date)
                  <=> SameInstant(Sent[i].date, Sent[j].date))
    /\ ReturnedTag =>
          \A i \in 1..Len(tags) :
              SameInstant(tags[1].date, tags[i].date) =>
                  \E k \in 1..Len(ConflictingFrom(tags, 1, <<tags[1].tag>>)) :
                      ConflictingFrom(tags, 1, <<tags[1].tag>>)[k] = tags[i].tag


----------------------------------------------------------------------------
(* Version 0.5: getTagsList and getTagManifest carry the retry loop         *)
(* themselves, with the constant retries = 3.  The two functions differ in  *)
(* the url and in the value json.Unmarshal fills; the loop is the same.     *)
(* The call uses the variables of one call of retryGetRequest: retry is     *)
(* the loop variable i, body is the value decoded so far (tagList or        *)
(* tagManifest), getResult the (value, error) returned.                     *)

\* const retries int = 3
retriesV05 == 3

\* fmt.Errorf("Image name parse error, not all required parts detected")
ImageNameParseError == [kind |-> "ImageNameParse", url |-> <<>>, code |-> 0, retry |-> 0]

\* fmt.Errorf("URL %s HTTP response code: %s", url, resp.Status)
URLStatusError(u, code) == [kind |-> "URLStatus", url |-> u, code |-> code, retry |-> 0]

\* fmt.Errorf("%s: container registry http timeout", url)
RegistryTimeoutError(u) == [kind |-> "RegistryTimeout", url |-> u, code |-> 0, retry |-> 0]

\* parseImageName of version 0.5: host/path, an error without a slash
parseImageNameV05(imageName) ==
    LET parts == Split(imageName, "/") IN
    IF Len(parts) < 2
    THEN [host |-> <<>>, path |-> <<>>, err |-> ImageNameParseError]
    ELSE [host |-> parts[1], path |-> Join(Tail(parts), "/"), err |-> NoErr]

\* url := "https://" + imageParts.host + "/v2/" + imageParts.path + ...
TagsListURLV05(p) ==
    <<"h","t","t","p","s",":","/","/">> \o p.host \o <<"/","v","2","/">>
        \o p.path \o <<"/","t","a","g","s","/","l","i","s","t">>
ManifestURLV05(p, tag) ==
    <<"h","t","t","p","s",":","/","/">> \o p.host \o <<"/","v","2","/">>
        \o p.path \o <<"/","m","a","n","i","f","e","s","t","s","/">> \o tag

\* the calls: getTagsList(image, ...) and getTagManifest(image, tag, ...),
\* for an image with a host and for one without a slash
ImagesV05 == {Image, <<"a">>}
CallsV05 == {"getTagsList", "getTagManifest"}
UrlV05(call, p) ==
    IF call = "getTagsList" THEN TagsListURLV05(p) ELSE ManifestURLV05(p, <<"a">>)

\* the HTTPResponse values httpGet of version 0.5 can send: errs of the
\* request, a status other than 200, or the body of a 200 (JSON or not)
MessagesV05(u) ==
    {[body |-> EmptyBody, err |-> TransportError("transport"), statusCode |-> 0]}
    \cup {[body |-> EmptyBody, err |-> URLStatusError(u, st), statusCode |-> st] :
             st \in Statuses \ {200}}
    \cup {[body |-> b, err |-> NoErr, statusCode |-> 200] :
             b \in GetBodies \cup {GarbageBody}}

\* json.Unmarshal([]byte(msg.body), &value) returns nil
UnmarshalsV05(b) == b.kind \notin {"empty", "garbage"}

\* the loop condition: i <= retries
LoopCondV05(i) == i <= retriesV05

\* case msg := <-response: on success the value is filled and the loop is
\* left, and responseError is not assigned; a text that is not JSON leaves
\* the value as it was
HandleResponseV05(msg, curErr, curValue) ==
    IF msg.err = NoErr
    THEN IF UnmarshalsV05(msg.body)
         THEN [responseError |-> curErr, body |-> msg.body, next |-> "break"]
         ELSE [responseError |-> UnmarshalError, body |-> curValue,
               next |-> "continue"]
    ELSE [responseError |-> msg.err, body |-> curValue, next |-> "continue"]

\* case <-time.After(...)
HandleTimeoutV05(u, curErr, curValue) ==
    [responseError |-> RegistryTimeoutError(u), body |-> curValue,
     next |-> "continue"]

\* the statements after the loop: the value goes with either return
ReturnValueV05(err, value) == [body |-> value, err |-> err]

AfterSelectV05(h) ==
    /\ responseError' = h.responseError
    /\ body' = h.body
    /\ IF h.next = "break"
       THEN /\ gpc' = "done"
            /\ retry' = retry
            /\ getResult' = ReturnValueV05(h.responseError, h.body)
       ELSE /\ gpc' = "loop"
            /\ retry' = retry + 1
            /\ getResult' = getResult

\* imageParts, err := parseImageName(image); the channel and the url
ParseV05 ==
    /\ gpc = "parse"
    /\ \E image \in ImagesV05, call \in CallsV05 :
         LET p == parseImageNameV05(image) IN
         IF p.err # NoErr
         THEN /\ gpc' = "done"
              /\ getResult' = ReturnValueV05(p.err, EmptyBody)
              /\ UNCHANGED url
         ELSE /\ gpc' = "loop"
              /\ url' = UrlV05(call, p)
              /\ UNCHANGED getResult
    /\ UNCHANGED <<retries, retry, responseError, body, response, httpGets, getLog>>
    /\ UNCHANGED <<poolVars, histVars, fnVars>>

\* for i := 1; i <= retries; i++ { sleep unless i = 1; go httpGet(...) }
StartAttemptV05 ==
    /\ gpc = "loop"
    /\ LoopCondV05(retry)
    /\ httpGets' = [httpGets EXCEPT ![retry] = "running"]
    /\ gpc' = "select"
    /\ UNCHANGED <<retries, url, retry, responseError, body, response, getLog, getResult>>
    /\ UNCHANGED <<poolVars, histVars, fnVars>>

\* the loop condition fails: the statements after the loop
ExitLoopV05 ==
    /\ gpc = "loop"
    /\ ~LoopCondV05(retry)
    /\ gpc' = "done"
    /\ getResult' = ReturnValueV05(responseError, body)
    /\ UNCHANGED <<retries, url, retry, responseError, body, response, httpGets, getLog>>
    /\ UNCHANGED <<poolVars, histVars, fnVars>>

\* httpGet: the request ends and the goroutine blocks in response <- msg
HttpGetSendV05(g) ==
    /\ httpGets[g] = "running"
    /\ \E msg \in MessagesV05(url) :
          response' = Append(response, [from |-> g, msg |-> msg])
    /\ httpGets' = [httpGets EXCEPT ![g] = "blocked"]
    /\ UNCHANGED <<retries, url, gpc, retry, responseError, body, getLog, getResult>>
    /\ UNCHANGED <<poolVars, histVars, fnVars>>

\* case msg := <-response
ReceiveV05 ==
    /\ gpc = "select"
    /\ response # <<>>
    /\ LET m == Head(response) IN
         /\ response' = Tail(response)
         /\ httpGets' = [httpGets EXCEPT ![m.from] = "done"]
         /\ getLog' = Append(getLog, [retry |-> retry, kind |-> "response",
                                      from |-> m.from, msg |-> m.msg])
         /\ AfterSelectV05(HandleResponseV05(m.msg, responseError, body))
    /\ UNCHANGED <<retries, url>>
    /\ UNCHANGED <<poolVars, histVars, fnVars>>

\* case <-time.After(httpTimeout)
TimeoutV05 ==
    /\ gpc = "select"
    /\ response = <<>>
    /\ getLog' = Append(getLog, [retry |-> retry, kind |-> "timeout",
                                 from |-> -1, msg |-> NoMsg])
    /\ AfterSelectV05(HandleTimeoutV05(url, responseError, body))
    /\ UNCHANGED <<retries, url, response, httpGets>>
    /\ UNCHANGED <<poolVars, histVars, fnVars>>

\* one call of getTagsList or getTagManifest of version 0.5
InitV05 ==
    /\ retries = retriesV05
    /\ url = <<>>
    /\ gpc = "parse"
    /\ retry = 1
    /\ responseError = NoErr
    /\ body = EmptyBody
    /\ response = <<>>
    /\ httpGets = [g \in 1..retriesV05 |-> "none"]
    /\ getLog = <<>>
    /\ getResult = NoResult
    /\ threads = 1
    /\ cache = FALSE
    /\ redisStore = [k \in Keys |-> NilValue]
    /\ PoolIdle
    /\ FnIdle

NextV05 ==
    \/ ParseV05
    \/ StartAttemptV05
    \/ ExitLoopV05
    \/ \E g \in 1..retriesV05 : HttpGetSendV05(g)
    \/ ReceiveV05
    \/ TimeoutV05

SpecV05 == InitV05 /\ [][NextV05]_vars

----------------------------------------------------------------------------
(* Properties of the fetch loop of version 0.5, checked under SpecV05 *)

\* the iteration of the log failed: a timeout, an error of the request, a
\* status other than 200 or a body that is not JSON
FailedV05(e) ==
    \/ e.kind = "timeout"
    \/ e.msg.err # NoErr
    \/ ~UnmarshalsV05(e.msg.body)

\* C31 as stated: when the call has returned and the last iteration of its
\* loop received a response that decoded, after at least one failed
\* iteration, the call returns the decoded value and no error.
C31_LaterSuccessClearsError ==
    (/\ gpc = "done"
     /\ Len(getLog) >= 2
     /\ ~FailedV05(getLog[Len(getLog)])
     /\ \E k \in 1..(Len(getLog) - 1) : FailedV05(getLog[k]))
        => /\ getResult.err = NoErr
           /\ getResult.body = getLog[Len(getLog)].msg.body

====
